---------------------------- MODULE Spec2Model ----------------------------
(***************************************************************************)
(* A model of the metrics retrieval and aggregation pipeline of            *)
(* OptimizationAdvisor (src/function_rds.py):                              *)
(*                                                                         *)
(*   reformat_bytes_metrics     the unit normalizer                        *)
(*   get_rds_metrics            the fetcher with its range-splitting loop  *)
(*   aggregate_cluster_metrics  the per-entity aggregation                 *)
(*                                                                         *)
(* Time is counted in whole seconds.  Numbers carried by datapoints are    *)
(* exact rationals <<numerator, denominator>>: Python divides by 2^20,     *)
(* which is exact in binary floating point, and statistics.mean is exact.  *)
(* A datapoint is a function from its keys to values, so that an absent    *)
(* key is a key outside its DOMAIN.                                        *)
(***************************************************************************)
EXTENDS Integers, Sequences, FiniteSets, TLC

VARIABLES
    pc,                   \* where the modelled call stands
    error,                \* the exception that ended the call, or "none"
    \* ---- reformat_bytes_metrics called on its own
    raw_point,            \* the datapoint as handed to the normalizer
    data_point,           \* the datapoint, rewritten in place
    is_extended,
    \* ---- get_rds_metrics
    period, start_time, end_time,
    statistics, extended_statistics,
    samples,              \* instants at which the upstream API holds a datapoint
    up_unit,              \* the unit the upstream API reports for the metric
    up_order,             \* the order in which a response lists its datapoints
    path,                 \* "unsplit" or "split" once the branch of line 114 is taken
    current_start_time,
    datapoints, extended_datapoints,
    queries,              \* the get_metric_statistics calls issued so far
    ret,                  \* the pair returned
    \* ---- aggregate_cluster_metrics
    service_tag, cluster, metric_name,
    instance_ids,         \* the keys of all_metrics in iteration order
    all_metrics, all_extended_metrics,
    agg_next,             \* index in instance_ids of the next entity of the loop
    unit,
    all_aggregate_result,
    \* ---- output_line_agg_result called on its own
    agg, title, res,
    \* ---- generate_rds_metrics_graphics
    rds_clusters,         \* what get_rds_clusters returned
    cluster_instances,    \* what get_instances_in_cluster returns per cluster
    up_kind,              \* per entity, what the upstream API holds for it
    run_cluster,          \* index in rds_clusters of the cluster being processed
    run_config,           \* index of the metric configuration being processed
    inst_next,            \* index of the next instance of the fetch loop
    agg_result,           \* what the last generate_..._for_cluster call returned
    agg_file,             \* per cluster, the lines of its aggregated-metrics file
    plotted               \* the (cluster, metric) pairs handed on to the plots

normVars  == <<raw_point, data_point, is_extended>>
fetchIn   == <<period, start_time, end_time, samples, up_unit, up_order>>
fetchVars == <<path, current_start_time, datapoints, extended_datapoints,
               queries, ret>>
statVars  == <<statistics, extended_statistics>>
aggIn     == <<service_tag, cluster, metric_name, instance_ids,
               all_metrics, all_extended_metrics>>
aggVars   == <<agg_next, unit, all_aggregate_result>>
csvVars   == <<agg, title, res>>
runIn     == <<rds_clusters, cluster_instances, up_kind>>
runVars   == <<run_cluster, run_config, inst_next, agg_result, agg_file, plotted>>
vars      == <<pc, error, normVars, fetchIn, fetchVars, statVars, aggIn, aggVars,
               csvVars, runIn, runVars>>

---------------------------------------------------------------------------
(* Bounds of the model. *)

MaxPeriod    == 2     \* period ranges over -1 .. MaxPeriod
MaxStart     == 1     \* start_time ranges over 0 .. MaxStart
MaxWindows   == 2     \* the range spans up to MaxWindows split durations
MaxSlack     == 2     \* ... give or take MaxSlack seconds
MaxSeriesLen == 3     \* datapoints in a standard series handed to aggregation
MaxExtLen    == 2     \* datapoints in an extended series handed to aggregation
MaxInstances == 2     \* instances of the first cluster of a run

(* Program constants. *)

max_datapoints == 1440
TokyoOffset    == 9

None == "None"

---------------------------------------------------------------------------
(* Arithmetic. *)

Abs(n) == IF n < 0 THEN 0 - n ELSE n

Min(a, b) == IF b < a THEN b ELSE a

\* Python's a // b on whole numbers: the floor of the quotient, for either sign
\* of b (b # 0).
FloorDiv(a, b) == IF b > 0 THEN a \div b ELSE (0 - a) \div (0 - b)

RECURSIVE GCD(_, _)
GCD(a, b) == IF b = 0 THEN a ELSE GCD(b, a % b)

LCM(a, b) == (a \div GCD(a, b)) * b

\* The rational n/d (d > 0) in lowest terms.
Rat(n, d) == LET g == GCD(Abs(n), d) IN <<n \div g, d \div g>>

Whole(n) == <<n, 1>>

RatAdd(x, y) ==
    LET l == LCM(x[2], y[2])
    IN  Rat(x[1] * (l \div x[2]) + y[1] * (l \div y[2]), l)

RatLess(x, y) ==
    LET l == LCM(x[2], y[2])
    IN  x[1] * (l \div x[2]) < y[1] * (l \div y[2])

\* x / k for a whole number k > 0.
RatDivInt(x, k) ==
    LET g == GCD(Abs(x[1]), k)
    IN  IF x[1] = 0 THEN <<0, 1>> ELSE <<x[1] \div g, x[2] * (k \div g)>>

\* Python's truth value of a number.
Truthy(x) == x[1] # 0

Range(s) == {s[i] : i \in DOMAIN s}

---------------------------------------------------------------------------
(* reformat_bytes_metrics *)

StdFields == <<"Average", "Maximum", "Minimum", "Sum">>

\* The percentile labels the normalizer names, in the order it visits them.
ReformatLabels == <<"p90", "p99", "p80", "p50">>

BytesPerMB == 1024 * 1024

\* The division that also fills in an absent key as zero.
DivideOrZero(d, k) ==
    IF k \in DOMAIN d
    THEN (IF Truthy(d[k]) THEN [d EXCEPT ![k] = RatDivInt(@, BytesPerMB)] ELSE d)
    ELSE (k :> Whole(0)) @@ d

\* `if d.get(k): d[k] = d[k] / (1024 * 1024)`
DivideIfTruthy(d, k) ==
    IF k \in DOMAIN d /\ Truthy(d[k])
    THEN [d EXCEPT ![k] = RatDivInt(@, BytesPerMB)]
    ELSE d

RECURSIVE DivideAll(_, _)
DivideAll(d, keys) ==
    IF keys = <<>> THEN d
    ELSE DivideAll(DivideIfTruthy(d, Head(keys)), Tail(keys))

\* The normalizer leaving the unit label as it found it.
reformat_keeps_unit(dp, ext) ==
    IF dp["Unit"] # "Bytes" THEN dp
    ELSE IF ext = FALSE
    THEN DivideAll(dp, StdFields)
    ELSE IF "ExtendedStatistics" \in DOMAIN dp
            /\ DOMAIN dp["ExtendedStatistics"] # {}
         THEN [dp EXCEPT !["ExtendedStatistics"] = DivideAll(@, ReformatLabels)]
         ELSE dp

\* The datapoint as the call leaves it.
reformat_bytes_metrics(dp, ext) ==
    IF dp["Unit"] # "Bytes" THEN dp
    ELSE IF ext = FALSE
    THEN DivideAll([dp EXCEPT !["Unit"] = "MB"], StdFields)
    ELSE LET d == [dp EXCEPT !["Unit"] = "MB"]
         IN  IF "ExtendedStatistics" \in DOMAIN d
                /\ DOMAIN d["ExtendedStatistics"] # {}
             THEN [d EXCEPT !["ExtendedStatistics"] = DivideAll(@, ReformatLabels)]
             ELSE d

\* Datapoints handed to the normalizer in the stand-alone calls.
RawUnits == {"Bytes", "Percent", "Count"}

RawValues == {Whole(0), Whole(1048576), Whole(524288), Whole(3)}

Stamp(t, off) == [instant |-> t, utcoffset |-> off]

StdPointsRaw ==
    { [Timestamp |-> Stamp(0, 0), Unit |-> u] @@ f :
        u \in RawUnits,
        f \in UNION { [K -> RawValues] : K \in SUBSET Range(StdFields) } }

ExtLabelsRaw == {"p50", "p90", "p95"}

ExtPointsRaw ==
    { [Timestamp |-> Stamp(0, 0), Unit |-> u, ExtendedStatistics |-> f] :
        u \in RawUnits,
        f \in UNION { [K -> RawValues] : K \in SUBSET ExtLabelsRaw } }

InitNorm ==
    /\ pc = "normalize"
    /\ \/ is_extended = FALSE /\ raw_point \in StdPointsRaw
       \/ is_extended = TRUE  /\ raw_point \in ExtPointsRaw
    /\ data_point = raw_point

\* One call reformat_bytes_metrics(data_point, is_extended).
Reformat ==
    /\ pc = "normalize"
    /\ data_point' = reformat_bytes_metrics(data_point, is_extended)
    /\ pc' = "normalized"
    /\ UNCHANGED <<csvVars, runIn, runVars, error, raw_point, is_extended, fetchIn, fetchVars, statVars,
                   aggIn, aggVars>>

---------------------------------------------------------------------------
(* The upstream monitoring API, cloudwatch_client.get_metric_statistics.    *)
(* It holds one datapoint at each instant of `samples` and answers a query  *)
(* with those of the half-open window [StartTime, EndTime), timestamps in   *)
(* UTC, listed in the order up_order.                                       *)

RECURSIVE Ascending(_)
Ascending(S) ==
    IF S = {} THEN <<>>
    ELSE LET m == CHOOSE x \in S : \A y \in S : x <= y
         IN  <<m>> \o Ascending(S \ {m})

RECURSIVE Reverse(_)
Reverse(s) == IF s = <<>> THEN <<>> ELSE Reverse(Tail(s)) \o <<Head(s)>>

\* The raw value the metric has at instant t.
RawValue(t) ==
    CASE t % 3 = 0 -> 0
      [] t % 3 = 1 -> 1048576
      [] OTHER     -> 524288

StatValue(f, t) ==
    CASE f = "Average" -> Whole(RawValue(t))
      [] f = "Maximum" -> Whole(2 * RawValue(t))
      [] f = "Minimum" -> Whole(RawValue(t) \div 2)
      [] OTHER         -> Whole(3 * RawValue(t))

PercentileValue(l, t) == IF l = "p99" THEN Whole(2 * RawValue(t)) ELSE Whole(RawValue(t))

InWindow(S, st, en) == {t \in S : st <= t /\ t < en}

Listed(S, order) == IF order = "asc" THEN Ascending(S) ELSE Reverse(Ascending(S))

\* response.get('Datapoints', []) of a query with Statistics=stats.
StatisticsResponse(S, u, order, stats, st, en) ==
    LET ts == Listed(InWindow(S, st, en), order)
    IN  [i \in DOMAIN ts |->
            [Timestamp |-> Stamp(ts[i], 0), Unit |-> u]
            @@ [f \in Range(stats) |-> StatValue(f, ts[i])]]

\* response.get('Datapoints', []) of a query with ExtendedStatistics=labels.
ExtendedResponse(S, u, order, labels, st, en) ==
    LET ts == Listed(InWindow(S, st, en), order)
    IN  [i \in DOMAIN ts |->
            [Timestamp |-> Stamp(ts[i], 0), Unit |-> u,
             ExtendedStatistics |-> [l \in Range(labels) |-> PercentileValue(l, ts[i])]]]

Query(kind, p, st, en) ==
    [kind |-> kind, Period |-> p, StartTime |-> st, EndTime |-> en]

---------------------------------------------------------------------------
(* get_rds_metrics *)

\* total_seconds // period
datapoints_requested(st, en, p) == FloorDiv(en - st, p)

\* A window one datapoint too long.
split_duration_over(p) == p * (max_datapoints + 1)

\* timedelta(seconds=period * max_datapoints)
split_duration(p) == p * max_datapoints

\* The window's end without the clip to end_time.
current_end_time_unclipped(cur, en, p) == cur + split_duration(p)

\* min(current_start_time + split_duration, end_time)
current_end_time(cur, en, p) == Min(cur + split_duration(p), en)

\* dp['Timestamp'] = dp['Timestamp'].astimezone(tokyo_timezone): the same
\* instant, shown at UTC+9.
astimezone(dp) == [dp EXCEPT !["Timestamp"].utcoffset = TokyoOffset]

\* The two `for dp in ...` loops that follow the queries.
Converted(dps, ext) ==
    [i \in DOMAIN dps |-> reformat_bytes_metrics(astimezone(dps[i]), ext)]

\* sorted(xs, key=lambda x: x['Timestamp']): stable, ascending by instant.
RECURSIVE sorted(_)
sorted(xs) ==
    IF xs = <<>> THEN <<>>
    ELSE LET n    == Len(xs)
             x    == xs[n]
             done == sorted(SubSeq(xs, 1, n - 1))
             keep == {i \in DOMAIN done :
                        done[i]["Timestamp"].instant <= x["Timestamp"].instant}
             k    == Cardinality(keep)
         IN  SubSeq(done, 1, k) \o <<x>> \o SubSeq(done, k + 1, Len(done))

\* Lines 150-157: what the unsplit branch returns for its two lists.
UnsplitReturn(dps, edps) ==
    <<sorted(Converted(dps, FALSE)), sorted(Converted(edps, TRUE))>>

\* The split branch returning its lists in the order fetched.
SplitReturn_unsorted(dps, edps) ==
    <<Converted(dps, FALSE), Converted(edps, TRUE)>>

\* Lines 204-211: what the split branch returns for its two lists.
SplitReturn(dps, edps) ==
    <<sorted(Converted(dps, FALSE)), sorted(Converted(edps, TRUE))>>

\* The queries the unsplit branch issues for [st, en): lines 117-148.
UnsplitQueries(p, stats, labels, st, en) ==
    <<Query("Statistics", p, st, en)>>
    \o (IF labels # <<>> THEN <<Query("ExtendedStatistics", p, st, en)>> ELSE <<>>)

\* The queries one iteration of the loop issues for [st, en): lines 169-200.
SplitQueries(p, stats, labels, st, en) ==
    <<Query("Statistics", p, st, en)>>
    \o (IF labels # <<>> THEN <<Query("ExtendedStatistics", p, st, en)>> ELSE <<>>)

\* The extended datapoints one window adds (nothing without labels).
ExtendedFetched(S, u, order, labels, st, en) ==
    IF labels # <<>> THEN ExtendedResponse(S, u, order, labels, st, en) ELSE <<>>

\* Lines 115-157 as a function of the range: the pair the unsplit branch
\* returns when it is run on [st, en).
get_rds_metrics_unsplit(S, u, order, stats, labels, st, en) ==
    UnsplitReturn(StatisticsResponse(S, u, order, stats, st, en),
                  ExtendedFetched(S, u, order, labels, st, en))

StatisticsChoices == {<<>>, <<"Average">>, <<"Average", "Maximum">>}

ExtendedChoices == {<<>>, <<"p90", "p99">>}

\* Instants at the edges of the first split window and of the range.
EdgeInstants(st, en, p) ==
    LET w == Abs(p) * max_datapoints
    IN  {st, st + w - 1, st + w, en - 1, en}

\* The state at the call; every caller passes start_time and end_time, so the
\* defaults of lines 103-106 are not taken.
InitFetch ==
    /\ pc = "call"
    /\ period \in -1 .. MaxPeriod
    /\ start_time \in 0 .. MaxStart
    /\ \E k \in 0 .. MaxWindows, r \in (0 - MaxSlack) .. MaxSlack :
          end_time = start_time + k * period * max_datapoints + r
    /\ statistics \in StatisticsChoices
    /\ extended_statistics \in ExtendedChoices
    /\ LET e == EdgeInstants(start_time, end_time, period)
       IN  samples \in {{}, e, {start_time + Abs(period) * max_datapoints},
                        {start_time, end_time - 1}}
    /\ up_unit \in {"Bytes", "Percent"}
    /\ up_order \in {"asc", "desc"}
    /\ path = "none"
    /\ current_start_time = None
    /\ datapoints = <<>>
    /\ extended_datapoints = <<>>
    /\ queries = <<>>
    /\ ret = None

\* Line 110 with period = 0: the floor division raises.
DivideByZero ==
    /\ pc = "call"
    /\ period = 0
    /\ pc' = "raised"
    /\ error' = "ZeroDivisionError"
    /\ UNCHANGED <<csvVars, runIn, runVars, normVars, fetchIn, fetchVars, statVars, aggIn, aggVars>>

\* Lines 114-157: the whole range in one window.
Unsplit ==
    /\ pc = "call"
    /\ period # 0
    /\ datapoints_requested(start_time, end_time, period) <= max_datapoints
    /\ path' = "unsplit"
    /\ queries' = queries \o UnsplitQueries(period, statistics, extended_statistics,
                                            start_time, end_time)
    /\ datapoints' =
          Converted(StatisticsResponse(samples, up_unit, up_order, statistics,
                                       start_time, end_time), FALSE)
    /\ extended_datapoints' =
          Converted(ExtendedFetched(samples, up_unit, up_order, extended_statistics,
                                    start_time, end_time), TRUE)
    /\ ret' = get_rds_metrics_unsplit(samples, up_unit, up_order, statistics,
                                      extended_statistics, start_time, end_time)
    /\ pc' = "done"
    /\ UNCHANGED <<csvVars, runIn, runVars, error, normVars, fetchIn, current_start_time, statVars,
                   aggIn, aggVars>>

\* Lines 159-163: the range needs splitting.
SplitBegin ==
    /\ pc = "call"
    /\ period # 0
    /\ datapoints_requested(start_time, end_time, period) > max_datapoints
    /\ path' = "split"
    /\ datapoints' = <<>>
    /\ extended_datapoints' = <<>>
    /\ current_start_time' = start_time
    /\ pc' = "loop"
    /\ UNCHANGED <<csvVars, runIn, runVars, error, normVars, fetchIn, queries, ret, statVars, aggIn, aggVars>>

\* Lines 165-202: one iteration of the while loop.
SplitIterate ==
    /\ pc = "loop"
    /\ current_start_time < end_time
    /\ LET cur_end == current_end_time(current_start_time, end_time, period)
       IN  /\ queries' = queries \o SplitQueries(period, statistics, extended_statistics,
                                                 current_start_time, cur_end)
           /\ datapoints' = datapoints \o
                 StatisticsResponse(samples, up_unit, up_order, statistics,
                                    current_start_time, cur_end)
           /\ extended_datapoints' = extended_datapoints \o
                 ExtendedFetched(samples, up_unit, up_order, extended_statistics,
                                 current_start_time, cur_end)
           /\ current_start_time' = cur_end
    /\ UNCHANGED <<csvVars, runIn, runVars, pc, error, normVars, fetchIn, path, ret, statVars, aggIn, aggVars>>

\* Lines 204-211: the loop is over.
SplitFinish ==
    /\ pc = "loop"
    /\ ~(current_start_time < end_time)
    /\ datapoints' = Converted(datapoints, FALSE)
    /\ extended_datapoints' = Converted(extended_datapoints, TRUE)
    /\ ret' = SplitReturn(datapoints, extended_datapoints)
    /\ pc' = "done"
    /\ UNCHANGED <<csvVars, runIn, runVars, error, normVars, fetchIn, path, current_start_time, queries,
                   statVars, aggIn, aggVars>>

---------------------------------------------------------------------------
(* aggregate_cluster_metrics *)

\* [dp[key] for dp in series if key in dp]
RECURSIVE Present(_, _)
Present(series, key) ==
    IF series = <<>> THEN <<>>
    ELSE (IF key \in DOMAIN Head(series) THEN <<Head(series)[key]>> ELSE <<>>)
         \o Present(Tail(series), key)

\* [dp["ExtendedStatistics"][label] for dp in series
\*      if label in dp["ExtendedStatistics"]]
RECURSIVE PresentExtended(_, _)
PresentExtended(series, label) ==
    IF series = <<>> THEN <<>>
    ELSE (IF label \in DOMAIN Head(series)["ExtendedStatistics"]
          THEN <<Head(series)["ExtendedStatistics"][label]>> ELSE <<>>)
         \o PresentExtended(Tail(series), label)

\* sum(values), which starts from 0.
RECURSIVE sum(_)
sum(values) ==
    IF values = <<>> THEN Whole(0) ELSE RatAdd(sum(SubSeq(values, 1, Len(values) - 1)),
                                               values[Len(values)])

\* statistics.mean(values) of a non-empty list.
mean(values) ==
    LET t == sum(values)
    IN  Rat(t[1], t[2] * Len(values))

\* max(values) of a non-empty list.
RECURSIVE max(_)
max(values) ==
    IF Len(values) = 1 THEN values[1]
    ELSE LET m == max(Tail(values))
         IN  IF RatLess(Head(values), m) THEN m ELSE Head(values)

\* min(values) of a non-empty list.
RECURSIVE min(_)
min(values) ==
    IF Len(values) = 1 THEN values[1]
    ELSE LET m == min(Tail(values))
         IN  IF RatLess(m, Head(values)) THEN m ELSE Head(values)

\* start_time.strftime('%Y/%m/%d %H:%M:%S')
strftime(t) == [strftime |-> t]

\* The result of part of an iteration: the record so far, and the exception
\* that stopped it ("none" when it ran through).
Outcome(rec, err) == [rec |-> rec, err |-> err]

\* `aggregate_result[key] = value`
Store(rec, key, value) ==
    IF key \in DOMAIN rec THEN [rec EXCEPT ![key] = value] ELSE (key :> value) @@ rec

\* The body with the maximum stored as "min" too.
OneStatistic_maxasmin(rec, statistic, metrics) ==
    LET values == Present(metrics, statistic)
    IN  CASE statistic = "Average" ->
               IF values = <<>> THEN Outcome(rec, "StatisticsError")
               ELSE Outcome(Store(rec, "avg", mean(values)), "none")
          [] statistic = "Maximum" ->
               IF values = <<>> THEN Outcome(rec, "ValueError")
               ELSE Outcome(Store(rec, "max", max(values)), "none")
          [] statistic = "Minimum" ->
               IF values = <<>> THEN Outcome(rec, "ValueError")
               ELSE Outcome(Store(rec, "min", max(values)), "none")
          [] statistic = "Sum" ->
               Outcome(Store(rec, "sum", sum(values)), "none")
          [] OTHER -> Outcome(rec, "none")

\* The body of `for statistic in statistics` for one statistic: lines 352-365.
OneStatistic(rec, statistic, metrics) ==
    LET values == Present(metrics, statistic)
    IN  CASE statistic = "Average" ->
               IF values = <<>> THEN Outcome(rec, "StatisticsError")
               ELSE Outcome(Store(rec, "avg", mean(values)), "none")
          [] statistic = "Maximum" ->
               IF values = <<>> THEN Outcome(rec, "ValueError")
               ELSE Outcome(Store(rec, "max", max(values)), "none")
          [] statistic = "Minimum" ->
               IF values = <<>> THEN Outcome(rec, "ValueError")
               ELSE Outcome(Store(rec, "min", min(values)), "none")
          [] statistic = "Sum" ->
               Outcome(Store(rec, "sum", sum(values)), "none")
          [] OTHER -> Outcome(rec, "none")

\* `for statistic in statistics`: lines 351-365.
RECURSIVE StandardLoop(_, _, _)
StandardLoop(rec, stats, metrics) ==
    IF stats = <<>> THEN Outcome(rec, "none")
    ELSE LET o == OneStatistic(rec, Head(stats), metrics)
         IN  IF o.err # "none" THEN o ELSE StandardLoop(o.rec, Tail(stats), metrics)

\* The body with the maximum stored as <label>_max.
OneExtended_max(rec, label, extended_metrics) ==
    LET values      == PresentExtended(extended_metrics, label)
        avg_p_value == mean(values)
        max_p_value == max(values)
    IN  IF values = <<>> THEN Outcome(rec, "StatisticsError")
        ELSE Outcome(Store(Store(rec, label \o "_avg", avg_p_value),
                           label \o "_max", max_p_value), "none")

\* The body of `for extended_statistic in extended_statistics`: lines 368-372.
OneExtended(rec, label, extended_metrics) ==
    LET values      == PresentExtended(extended_metrics, label)
        avg_p_value == mean(values)
        max_p_value == max(values)
    IN  IF values = <<>> THEN Outcome(rec, "StatisticsError")
        ELSE Outcome(Store(Store(rec, label \o "_avg", avg_p_value),
                           label \o "_max", avg_p_value), "none")

\* `for extended_statistic in extended_statistics`: lines 367-372.
RECURSIVE ExtendedLoop(_, _, _)
ExtendedLoop(rec, labels, extended_metrics) ==
    IF labels = <<>> THEN Outcome(rec, "none")
    ELSE LET o == OneExtended(rec, Head(labels), extended_metrics)
         IN  IF o.err # "none" THEN o
             ELSE ExtendedLoop(o.rec, Tail(labels), extended_metrics)

\* Lines 343-349: the fields that tag the record.
Tagged(st, en, tag, cl, id, name, u) ==
    [StartTime |-> strftime(st), EndTime |-> strftime(en), ServiceTag |-> tag,
     Cluster |-> cl, Instance |-> id, MetricName |-> name, MetricUnit |-> u]

\* Lines 336-372: one iteration of `for instance_id in all_metrics`, given the
\* value unit has once line 341 has run.
OneInstance(st, en, tag, cl, id, name, u, stats, labels, metrics, extended_metrics) ==
    LET o == StandardLoop(Tagged(st, en, tag, cl, id, name, u), stats, metrics)
    IN  IF o.err # "none" THEN o ELSE ExtendedLoop(o.rec, labels, extended_metrics)

\* The unit read from every entity's own series.
UnitAfter_own(u, metrics) == metrics[1]["Unit"]

\* Lines 340-341.
UnitAfter(u, metrics) == IF u = None THEN metrics[1]["Unit"] ELSE u

\* Series handed to aggregation: normalized, shown at UTC+9, ascending.
SeqsUpTo(S, n) == UNION { [1 .. k -> S] : k \in 1 .. n }

\* The statistic fields of a standard datapoint: all four at one value.
StdBodies == { [f \in Range(StdFields) |-> Whole(v)] : v \in {10, 20, 30} }

\* A datapoint that carries no statistic field.
Bare == <<>>

\* The standard series of the first entity: datapoints that carry every field,
\* or a bare datapoint alone, or a bare datapoint before a full one.
StdBodySeqs ==
    SeqsUpTo(StdBodies, MaxSeriesLen)
    \cup { <<Bare>>, <<Bare, [f \in Range(StdFields) |-> Whole(20)]>> }

ExtBodies ==
    { [p90 |-> Whole(5), p99 |-> Whole(7)], [p90 |-> Whole(15), p99 |-> Whole(7)],
      [p99 |-> Whole(9)] }

StdSeries(u, bodies) ==
    [i \in DOMAIN bodies |-> [Timestamp |-> Stamp(i, TokyoOffset), Unit |-> u] @@ bodies[i]]

ExtSeries(u, bodies) ==
    [i \in DOMAIN bodies |->
        [Timestamp |-> Stamp(i, TokyoOffset), Unit |-> u, ExtendedStatistics |-> bodies[i]]]

AggStatisticsChoices ==
    { <<"Average", "Maximum">>, <<"Average", "Maximum", "Sum">>,
      <<"Average", "Minimum">>, <<"Average", "Maximum", "Minimum", "Sum">>,
      <<"Sum">> }

AggExtendedChoices == { <<>>, <<"p90", "p99">> }

\* The second entity, when there is one: a series in another unit.
SecondStd == StdSeries("MB", << [Average |-> <<1, 2>>, Maximum |-> Whole(3)] >>)

SecondExt == ExtSeries("MB", << [p90 |-> <<1, 2>>, p99 |-> Whole(1)] >>)

InitAgg ==
    /\ pc = "aggregate"
    /\ start_time = 0
    /\ end_time = 86400
    /\ service_tag = "svc"
    /\ cluster = "cluster-1"
    /\ metric_name = "CPUUtilization"
    /\ statistics \in AggStatisticsChoices
    /\ extended_statistics \in AggExtendedChoices
    /\ instance_ids \in { <<"i1">>, <<"i1", "i2">> }
    /\ \E b \in StdBodySeqs, e \in SeqsUpTo(ExtBodies, MaxExtLen) :
          /\ all_metrics =
                [id \in Range(instance_ids) |->
                    IF id = "i1" THEN StdSeries("Percent", b) ELSE SecondStd]
          /\ all_extended_metrics =
                [id \in Range(instance_ids) |->
                    IF id = "i1" THEN ExtSeries("Percent", e) ELSE SecondExt]
    /\ agg_next = 1
    /\ unit = None
    /\ all_aggregate_result = <<>>

\* What the iteration for the next entity comes to.
NextOutcome ==
    LET id == instance_ids[agg_next]
    IN  OneInstance(start_time, end_time, service_tag, cluster, id, metric_name,
                    UnitAfter(unit, all_metrics[id]), statistics, extended_statistics,
                    all_metrics[id], all_extended_metrics[id])

\* Lines 335-374: one iteration of the loop that runs through.
AggregateInstance ==
    /\ pc = "aggregate"
    /\ agg_next <= Len(instance_ids)
    /\ NextOutcome.err = "none"
    /\ unit' = UnitAfter(unit, all_metrics[instance_ids[agg_next]])
    /\ all_aggregate_result' =
          Store(all_aggregate_result, instance_ids[agg_next], NextOutcome.rec)
    /\ agg_next' = agg_next + 1
    /\ UNCHANGED <<csvVars, runIn, runVars, pc, error, normVars, fetchIn, fetchVars, statVars, aggIn>>

\* Lines 335-372: one iteration that mean, max or min ends with an exception;
\* nothing catches it, and the call returns no mapping.
AggregateRaise ==
    /\ pc = "aggregate"
    /\ agg_next <= Len(instance_ids)
    /\ NextOutcome.err # "none"
    /\ unit' = UnitAfter(unit, all_metrics[instance_ids[agg_next]])
    /\ error' = NextOutcome.err
    /\ pc' = "aggregate_raised"
    /\ UNCHANGED <<csvVars, runIn, runVars, normVars, fetchIn, fetchVars, statVars, aggIn, agg_next,
                   all_aggregate_result>>

\* Line 377: `return all_aggregate_result`.
AggregateReturn ==
    /\ pc = "aggregate"
    /\ agg_next > Len(instance_ids)
    /\ pc' = "aggregated"
    /\ UNCHANGED <<csvVars, runIn, runVars, error, normVars, fetchIn, fetchVars, statVars, aggIn, aggVars>>

---------------------------------------------------------------------------
(* output_line_agg_result (app_rds_metrics.py): one line of the aggregated-
   metrics file.  A line is the sequence of the pieces that are appended to
   it: cell texts, the separator "," and the final "\n". *)

columns ==
    <<"ServiceTag", "Cluster", "Instance", "MetricName", "MetricUnit",
      "avg", "max", "min", "sum",
      "p99_avg", "p99_max", "p90_avg", "p90_max",
      "p80_avg", "p80_max", "p50_avg", "p50_max">>

TagColumns == {columns[i] : i \in 1 .. 5}

StatColumns == {columns[i] : i \in 6 .. Len(columns)}

\* repr of a float: a whole number prints as n.0 and a non-negative half as
\* k.5; any other value is written by its exact fraction, which stands for its
\* decimal expansion.
float_repr(v) ==
    IF v[2] = 1 THEN ToString(v[1]) \o ".0"
    ELSE IF v[2] = 2 /\ v[1] >= 0 THEN ToString(FloorDiv(v[1], 2)) \o ".5"
    ELSE ToString(v[1]) \o "/" \o ToString(v[2])

\* f"{value}" of the value a record holds under col: the records hold texts
\* under the five tag columns and floats under every other key.
format(a, col) ==
    IF col \in TagColumns THEN a[col] ELSE float_repr(a[col])

\* agg.get(col, '-') with '0' as the default.
get_or_zero(a, col) ==
    IF col \in DOMAIN a THEN format(a, col) ELSE "0"

\* f"{agg.get(col, '-')}"
get_or_dash(a, col) ==
    IF col \in DOMAIN a THEN format(a, col) ELSE "-"

\* ",".join(columns[1 .. n])
RECURSIVE join(_)
join(n) ==
    IF n = 0 THEN <<>>
    ELSE IF n = 1 THEN <<columns[1]>>
    ELSE join(n - 1) \o <<",", columns[n]>>

\* res after the first n iterations of `for col in columns`
RECURSIVE cells(_, _)
cells(a, n) ==
    IF n = 0 THEN <<>>
    ELSE cells(a, n - 1) \o <<get_or_dash(a, columns[n]), ",">>

output_line_agg_result(a, t) ==
    IF t THEN join(Len(columns)) \o <<"\n">>
    ELSE cells(a, Len(columns)) \o <<"\n">>

\* The value a drawn record holds under a column: texts for the tags, a
\* different float for each statistic, 0.0 among them.
CsvValue(col) ==
    IF col \in TagColumns THEN "v_" \o col
    ELSE LET i == CHOOSE k \in 6 .. Len(columns) : columns[k] = col
         IN  Rat(i - 6, 2)

\* The records drawn: every aggregate shape (the tags and any subset of the
\* statistics), the records missing one column, the empty record; each with
\* or without a field that is not a column.
CsvDomains ==
    {TagColumns \cup S : S \in SUBSET StatColumns}
      \cup {(TagColumns \cup StatColumns) \ {c} : c \in TagColumns}
      \cup {{}}

CsvRecord(D, extra) ==
    [k \in D \cup (IF extra THEN {"p95_avg"} ELSE {}) |->
        IF k = "p95_avg" THEN Whole(7) ELSE CsvValue(k)]

InitCsv ==
    /\ pc = "csv"
    /\ \E D \in CsvDomains, extra \in BOOLEAN : agg = CsvRecord(D, extra)
    /\ title \in BOOLEAN
    /\ res = None

OutputLine ==
    /\ pc = "csv"
    /\ res' = output_line_agg_result(agg, title)
    /\ pc' = "csv_done"
    /\ UNCHANGED <<error, normVars, fetchIn, fetchVars, statVars, aggIn, aggVars,
                   agg, title, runIn, runVars>>

---------------------------------------------------------------------------
(* get_rds_metrics and aggregate_cluster_metrics as the calls the two
   pipelines make: each as a function of its arguments and of what the
   upstream API holds for the entity and metric queried. *)

\* What the upstream holds for one entity and metric: the instants of its
\* datapoints for the standard and for the extended statistics, the
\* statistics it reports, its unit and its listing order.
Upstream(std, ext, held, u, order) ==
    [std |-> std, ext |-> ext, held |-> held, unit |-> u, order |-> order]

\* The requested statistics the upstream reports.
Reported(up, stats) == SelectSeq(stats, LAMBDA f : f \in up.held)

\* Lines 165-202: the standard datapoints the while loop gathers from cur on.
RECURSIVE split_datapoints(_, _, _, _, _)
split_datapoints(up, p, stats, cur, en) ==
    IF ~(cur < en) THEN <<>>
    ELSE LET cur_end == current_end_time(cur, en, p)
         IN  StatisticsResponse(up.std, up.unit, up.order, Reported(up, stats),
                                cur, cur_end)
             \o split_datapoints(up, p, stats, cur_end, en)

\* Lines 165-202: the extended datapoints the while loop gathers from cur on.
RECURSIVE split_extended_datapoints(_, _, _, _, _)
split_extended_datapoints(up, p, labels, cur, en) ==
    IF ~(cur < en) THEN <<>>
    ELSE LET cur_end == current_end_time(cur, en, p)
         IN  ExtendedFetched(up.ext, up.unit, up.order, labels, cur, cur_end)
             \o split_extended_datapoints(up, p, labels, cur_end, en)

\* Lines 108-211 for period # 0: the pair (datapoints, extended_datapoints).
get_rds_metrics(up, p, stats, labels, st, en) ==
    IF datapoints_requested(st, en, p) <= max_datapoints
    THEN UnsplitReturn(StatisticsResponse(up.std, up.unit, up.order,
                                          Reported(up, stats), st, en),
                       ExtendedFetched(up.ext, up.unit, up.order, labels, st, en))
    ELSE SplitReturn(split_datapoints(up, p, stats, st, en),
                     split_extended_datapoints(up, p, labels, st, en))

\* The arguments of aggregate_cluster_metrics other than the two series maps.
AggCall(st, en, tag, cl, name, stats, labels) ==
    [start_time |-> st, end_time |-> en, service_tag |-> tag, cluster |-> cl,
     metric_name |-> name, statistics |-> stats, extended_statistics |-> labels]

\* Lines 335-374: `for instance_id in all_metrics` over the keys ids that are
\* left, with unit u and the mapping acc built so far.  An exception ends the
\* call and no mapping is returned.
RECURSIVE aggregate_loop(_, _, _, _, _, _)
aggregate_loop(c, ids, am, aem, u, acc) ==
    IF ids = <<>> THEN Outcome(acc, "none")
    ELSE LET id == Head(ids)
             u2 == UnitAfter(u, am[id])
             o  == OneInstance(c.start_time, c.end_time, c.service_tag, c.cluster,
                               id, c.metric_name, u2, c.statistics,
                               c.extended_statistics, am[id], aem[id])
         IN  IF o.err # "none" THEN Outcome(None, o.err)
             ELSE aggregate_loop(c, Tail(ids), am, aem, u2, Store(acc, id, o.rec))

\* Lines 324-377; ids lists the keys of all_metrics in insertion order.
aggregate_cluster_metrics(c, ids, am, aem) ==
    aggregate_loop(c, ids, am, aem, None, <<>>)

---------------------------------------------------------------------------
(* generate_rds_metrics_graphics (app_rds_metrics.py) with the two pipelines
   it calls, generate_instance_level_metrics_graphics_for_cluster and
   generate_cluster_level_metrics_graphics_for_cluster (function_rds.py).
   The plots are collaborators that draw what they are handed and return. *)

metrics_instance_configurations ==
    << [metric_name |-> "CPUUtilization", period |-> 60 * 5,
        statistics |-> <<"Average", "Maximum">>,
        extended_statistics |-> <<"p90", "p99">>],
       [metric_name |-> "DatabaseConnections", period |-> 60 * 5,
        statistics |-> <<"Average", "Maximum", "Sum">>,
        extended_statistics |-> <<"p90", "p99">>],
       [metric_name |-> "FreeableMemory", period |-> 60 * 5,
        statistics |-> <<"Average", "Minimum">>,
        extended_statistics |-> <<"p90", "p99">>],
       [metric_name |-> "Queries", period |-> 60 * 5,
        statistics |-> <<"Average", "Maximum", "Sum">>,
        extended_statistics |-> <<"p90", "p99">>],
       [metric_name |-> "ReadIOPS", period |-> 60 * 60 * 24,
        statistics |-> <<"Average", "Maximum", "Sum">>,
        extended_statistics |-> <<"p90", "p99">>],
       [metric_name |-> "WriteIOPS", period |-> 60 * 60 * 24,
        statistics |-> <<"Average", "Maximum", "Sum">>,
        extended_statistics |-> <<"p90", "p99">>] >>

metrics_cluster_configurations ==
    << [metric_name |-> "VolumeBytesUsed", period |-> 60 * 60,
        statistics |-> <<"Average", "Maximum">>,
        extended_statistics |-> <<"p90", "p99">>] >>

\* The unit in which the upstream reports a metric.
MetricUnit(name) ==
    CASE name \in {"FreeableMemory", "VolumeBytesUsed"} -> "Bytes"
      [] name = "CPUUtilization" -> "Percent"
      [] name \in {"ReadIOPS", "WriteIOPS"} -> "Count/Second"
      [] OTHER -> "Count"

\* The instants at which an entity that has data has datapoints: in the first
\* day, in the second split window of a 30-day range, near its end.
FullSamples == {0, 301, 432002, 2591700}

\* What the upstream holds for an entity of a kind:
\*   "full"       datapoints of every metric, every statistic reported;
\*   "none"       no datapoint of any metric;
\*   "noqueries"  no datapoint of the metric Queries;
\*   "noext"      no datapoint for the percentiles;
\*   "nomin"      Minimum reported in no datapoint;
\*   "nomax"      Maximum reported in no datapoint.
UpstreamOf(kind, name) ==
    LET S == IF kind = "none" \/ (kind = "noqueries" /\ name = "Queries")
             THEN {} ELSE FullSamples
        E == IF kind = "noext" THEN {} ELSE S
        H == CASE kind = "nomin" -> Range(StdFields) \ {"Minimum"}
               [] kind = "nomax" -> Range(StdFields) \ {"Maximum"}
               [] OTHER          -> Range(StdFields)
    IN  Upstream(S, E, H, MetricUnit(name), "desc")

\* The get_rds_metrics call of either pipeline for one entity.
Fetched(entity, config) ==
    get_rds_metrics(UpstreamOf(up_kind[entity], config.metric_name),
                    config.period, config.statistics, config.extended_statistics,
                    start_time, end_time)

\* The test with the standard series alone.
no_metrics_found_std(metrics, extended_metrics) == Len(metrics) = 0

\* `len(metrics) == 0 or len(extended_metrics) == 0`
no_metrics_found(metrics, extended_metrics) ==
    Len(metrics) = 0 \/ Len(extended_metrics) = 0

\* What a pipeline returns: None after the bare `return`, else the mapping of
\* aggregate records, with its keys in insertion order.
ReturnedNone == [is_none |-> TRUE, value |-> <<>>, keys |-> <<>>]

Returned(m, ids) == [is_none |-> FALSE, value |-> m, keys |-> ids]

\* for key in agg_result: file.write(output_line_agg_result(agg_result[key], title=False))
Rows(result) ==
    [i \in DOMAIN result.keys |->
        output_line_agg_result(result.value[result.keys[i]], FALSE)]

\* The call of the two plots: what they are handed.
Plot(cl, name, instances, am, aem) ==
    [cluster |-> cl, metric_name |-> name, instances |-> instances,
     all_metrics |-> DOMAIN am, all_extended_metrics |-> DOMAIN aem]

ClusterInfos ==
    << [ClusterId |-> "cluster-1", ServiceTag |-> "svc-a"],
       [ClusterId |-> "cluster-2", ServiceTag |-> "svc-b"] >>

InstanceName(k) == "i" \o ToString(k)

LastNDays == {1, 30}

InstanceKinds == {"full", "none", "noqueries", "noext", "nomin"}

\* The state at the call: the clusters found, their instances, and what the
\* upstream holds for each of them.
InitRun ==
    /\ pc = "run"
    /\ start_time = 0
    /\ \E last_n_days \in LastNDays : end_time = last_n_days * 86400
    /\ \E n \in 0 .. Len(ClusterInfos) : rds_clusters = SubSeq(ClusterInfos, 1, n)
    /\ \E n \in 0 .. MaxInstances :
          cluster_instances =
             [c \in {rds_clusters[k].ClusterId : k \in DOMAIN rds_clusters} |->
                 IF c = "cluster-1" THEN [k \in 1 .. n |-> InstanceName(k)]
                 ELSE <<"j1">>]
    /\ up_kind \in
          [DOMAIN cluster_instances
             \cup UNION {Range(cluster_instances[c]) : c \in DOMAIN cluster_instances}
           -> InstanceKinds \cup {"nomax"}]
    /\ \A e \in DOMAIN up_kind :
          CASE e = "i1"        -> up_kind[e] \in InstanceKinds
            [] e = "cluster-1" -> up_kind[e] \in {"full", "none", "nomax"}
            [] e = "cluster-2" -> up_kind[e] = "full"
            [] OTHER           -> up_kind[e] \in {"full", "none"}
    /\ run_cluster = 1
    /\ run_config = 1
    /\ inst_next = 1
    /\ agg_result = ReturnedNone
    /\ agg_file = <<>>
    /\ plotted = <<>>
    /\ service_tag = None /\ cluster = None /\ metric_name = None
    /\ instance_ids = <<>> /\ all_metrics = <<>> /\ all_extended_metrics = <<>>

\* Lines 118-121 of app_rds_metrics.py: no cluster was found.
NoClusters ==
    /\ pc = "run"
    /\ rds_clusters = <<>>
    /\ pc' = "run_done"
    /\ UNCHANGED <<error, normVars, fetchIn, fetchVars, statVars, aggIn, aggVars,
                   csvVars, runIn, runVars>>

\* Lines 122-154: the next cluster; its aggregated-metrics file is opened for
\* writing and gets the header line.
ClusterBegin ==
    /\ pc = "run"
    /\ run_cluster <= Len(rds_clusters)
    /\ cluster' = rds_clusters[run_cluster].ClusterId
    /\ service_tag' = rds_clusters[run_cluster].ServiceTag
    /\ agg_file' = Store(agg_file, rds_clusters[run_cluster].ClusterId,
                         <<output_line_agg_result(None, TRUE)>>)
    /\ run_config' = 1
    /\ pc' = "instance_configurations"
    /\ UNCHANGED <<error, normVars, fetchIn, fetchVars, statVars, aggVars, csvVars,
                   runIn, metric_name, instance_ids, all_metrics,
                   all_extended_metrics, run_cluster, inst_next, agg_result, plotted>>

\* Line 122: the loop over the clusters is over.
RunReturn ==
    /\ pc = "run"
    /\ rds_clusters # <<>>
    /\ run_cluster > Len(rds_clusters)
    /\ pc' = "run_done"
    /\ UNCHANGED <<error, normVars, fetchIn, fetchVars, statVars, aggIn, aggVars,
                   csvVars, runIn, runVars>>

\* Line 156 and lines 221-224 of function_rds.py: the instance-level pipeline
\* is called for the next configuration.
InstanceBegin ==
    /\ pc = "instance_configurations"
    /\ run_config <= Len(metrics_instance_configurations)
    /\ metric_name' = metrics_instance_configurations[run_config].metric_name
    /\ all_metrics' = <<>>
    /\ all_extended_metrics' = <<>>
    /\ instance_ids' = <<>>
    /\ inst_next' = 1
    /\ pc' = "instance_fetch"
    /\ UNCHANGED <<error, normVars, fetchIn, fetchVars, statVars, aggVars, csvVars,
                   runIn, service_tag, cluster, run_cluster, run_config, agg_result,
                   agg_file, plotted>>

\* Lines 227-240: an instance with an empty series is passed over.
InstanceSkip ==
    /\ pc = "instance_fetch"
    /\ inst_next <= Len(cluster_instances[cluster])
    /\ LET f == Fetched(cluster_instances[cluster][inst_next],
                        metrics_instance_configurations[run_config])
       IN  no_metrics_found(f[1], f[2])
    /\ inst_next' = inst_next + 1
    /\ UNCHANGED <<pc, error, normVars, fetchIn, fetchVars, statVars, aggIn, aggVars,
                   csvVars, runIn, run_cluster, run_config, agg_result, agg_file,
                   plotted>>

\* Lines 227-247: the two series of an instance are stored.
InstanceStore ==
    /\ pc = "instance_fetch"
    /\ inst_next <= Len(cluster_instances[cluster])
    /\ LET instance == cluster_instances[cluster][inst_next]
           f == Fetched(instance, metrics_instance_configurations[run_config])
       IN  /\ ~no_metrics_found(f[1], f[2])
           /\ all_metrics' = Store(all_metrics, instance, f[1])
           /\ all_extended_metrics' = Store(all_extended_metrics, instance, f[2])
           /\ instance_ids' = Append(instance_ids, instance)
    /\ inst_next' = inst_next + 1
    /\ UNCHANGED <<pc, error, normVars, fetchIn, fetchVars, statVars, aggVars,
                   csvVars, runIn, service_tag, cluster, metric_name, run_cluster,
                   run_config, agg_result, agg_file, plotted>>

\* Lines 250-252: nothing was stored; the bare `return` hands back None.
InstanceNoData ==
    /\ pc = "instance_fetch"
    /\ inst_next > Len(cluster_instances[cluster])
    /\ DOMAIN all_metrics = {} \/ DOMAIN all_extended_metrics = {}
    /\ agg_result' = ReturnedNone
    /\ pc' = "instance_write"
    /\ UNCHANGED <<error, normVars, fetchIn, fetchVars, statVars, aggIn, aggVars,
                   csvVars, runIn, run_cluster, run_config, inst_next, agg_file,
                   plotted>>

\* The aggregate_cluster_metrics call of the pipeline in progress.
RunAggregate ==
    LET config == IF pc = "instance_fetch"
                  THEN metrics_instance_configurations[run_config]
                  ELSE metrics_cluster_configurations[run_config]
    IN  aggregate_cluster_metrics(
            AggCall(start_time, end_time, service_tag, cluster, config.metric_name,
                    config.statistics, config.extended_statistics),
            instance_ids, all_metrics, all_extended_metrics)

\* Lines 254-271: aggregation, the two plots, `return aggregate_result`.
InstanceAggregate ==
    /\ pc = "instance_fetch"
    /\ inst_next > Len(cluster_instances[cluster])
    /\ ~(DOMAIN all_metrics = {} \/ DOMAIN all_extended_metrics = {})
    /\ RunAggregate.err = "none"
    /\ plotted' = Append(plotted, Plot(cluster, metric_name, cluster_instances[cluster],
                                       all_metrics, all_extended_metrics))
    /\ agg_result' = Returned(RunAggregate.rec, instance_ids)
    /\ pc' = "instance_write"
    /\ UNCHANGED <<error, normVars, fetchIn, fetchVars, statVars, aggIn, aggVars,
                   csvVars, runIn, run_cluster, run_config, inst_next, agg_file>>

\* Line 255: aggregation raises; neither the pipeline nor its caller catches
\* the exception, which ends the run.
InstanceAggregateRaise ==
    /\ pc = "instance_fetch"
    /\ inst_next > Len(cluster_instances[cluster])
    /\ ~(DOMAIN all_metrics = {} \/ DOMAIN all_extended_metrics = {})
    /\ RunAggregate.err # "none"
    /\ error' = RunAggregate.err
    /\ pc' = "run_raised"
    /\ UNCHANGED <<normVars, fetchIn, fetchVars, statVars, aggIn, aggVars, csvVars,
                   runIn, runVars>>

\* Lines 169-172 of app_rds_metrics.py: one row per key of agg_result.
InstanceWrite ==
    /\ pc = "instance_write"
    /\ ~agg_result.is_none
    /\ agg_file' = [agg_file EXCEPT ![cluster] = @ \o Rows(agg_result)]
    /\ run_config' = run_config + 1
    /\ pc' = "instance_configurations"
    /\ UNCHANGED <<error, normVars, fetchIn, fetchVars, statVars, aggIn, aggVars,
                   csvVars, runIn, run_cluster, inst_next, agg_result, plotted>>

\* Line 171 with agg_result None: `for key in agg_result` raises TypeError;
\* nothing catches it, and the run ends.
InstanceWriteRaise ==
    /\ pc = "instance_write"
    /\ agg_result.is_none
    /\ error' = "TypeError"
    /\ pc' = "run_raised"
    /\ UNCHANGED <<normVars, fetchIn, fetchVars, statVars, aggIn, aggVars, csvVars,
                   runIn, runVars>>

\* Line 156: the instance-level configurations are done.
InstanceConfigurationsDone ==
    /\ pc = "instance_configurations"
    /\ run_config > Len(metrics_instance_configurations)
    /\ run_config' = 1
    /\ pc' = "cluster_configurations"
    /\ UNCHANGED <<error, normVars, fetchIn, fetchVars, statVars, aggIn, aggVars,
                   csvVars, runIn, run_cluster, inst_next, agg_result, agg_file,
                   plotted>>

\* Line 174 and lines 280-295 of function_rds.py: the cluster-level pipeline
\* fetches an empty series and hands back None.
ClusterNoData ==
    /\ pc = "cluster_configurations"
    /\ run_config <= Len(metrics_cluster_configurations)
    /\ LET f == Fetched(cluster, metrics_cluster_configurations[run_config])
       IN  no_metrics_found(f[1], f[2])
    /\ metric_name' = metrics_cluster_configurations[run_config].metric_name
    /\ all_metrics' = <<>>
    /\ all_extended_metrics' = <<>>
    /\ instance_ids' = <<>>
    /\ agg_result' = ReturnedNone
    /\ pc' = "cluster_write"
    /\ UNCHANGED <<error, normVars, fetchIn, fetchVars, statVars, aggVars, csvVars,
                   runIn, service_tag, cluster, run_cluster, run_config, inst_next,
                   agg_file, plotted>>

\* Lines 280-303: the cluster's two series are stored under "NO-INSTANCE".
ClusterStore ==
    /\ pc = "cluster_configurations"
    /\ run_config <= Len(metrics_cluster_configurations)
    /\ LET f == Fetched(cluster, metrics_cluster_configurations[run_config])
       IN  /\ ~no_metrics_found(f[1], f[2])
           /\ all_metrics' = ("NO-INSTANCE" :> f[1])
           /\ all_extended_metrics' = ("NO-INSTANCE" :> f[2])
    /\ metric_name' = metrics_cluster_configurations[run_config].metric_name
    /\ instance_ids' = <<"NO-INSTANCE">>
    /\ pc' = "cluster_aggregate"
    /\ UNCHANGED <<error, normVars, fetchIn, fetchVars, statVars, aggVars, csvVars,
                   runIn, service_tag, cluster, run_cluster, run_config, inst_next,
                   agg_result, agg_file, plotted>>

\* Lines 305-322: aggregation, the two plots, `return aggregate_result`.
ClusterAggregate ==
    /\ pc = "cluster_aggregate"
    /\ RunAggregate.err = "none"
    /\ plotted' = Append(plotted, Plot(cluster, metric_name, <<"NO-INSTANCE">>,
                                       all_metrics, all_extended_metrics))
    /\ agg_result' = Returned(RunAggregate.rec, instance_ids)
    /\ pc' = "cluster_write"
    /\ UNCHANGED <<error, normVars, fetchIn, fetchVars, statVars, aggIn, aggVars,
                   csvVars, runIn, run_cluster, run_config, inst_next, agg_file>>

\* Line 306: aggregation raises, which ends the run.
ClusterAggregateRaise ==
    /\ pc = "cluster_aggregate"
    /\ RunAggregate.err # "none"
    /\ error' = RunAggregate.err
    /\ pc' = "run_raised"
    /\ UNCHANGED <<normVars, fetchIn, fetchVars, statVars, aggIn, aggVars, csvVars,
                   runIn, runVars>>

\* Lines 187-190 of app_rds_metrics.py: one row per key of agg_result.
ClusterWrite ==
    /\ pc = "cluster_write"
    /\ ~agg_result.is_none
    /\ agg_file' = [agg_file EXCEPT ![cluster] = @ \o Rows(agg_result)]
    /\ run_config' = run_config + 1
    /\ pc' = "cluster_configurations"
    /\ UNCHANGED <<error, normVars, fetchIn, fetchVars, statVars, aggIn, aggVars,
                   csvVars, runIn, run_cluster, inst_next, agg_result, plotted>>

\* Line 189 with agg_result None: TypeError, which ends the run.
ClusterWriteRaise ==
    /\ pc = "cluster_write"
    /\ agg_result.is_none
    /\ error' = "TypeError"
    /\ pc' = "run_raised"
    /\ UNCHANGED <<normVars, fetchIn, fetchVars, statVars, aggIn, aggVars, csvVars,
                   runIn, runVars>>

\* Line 174: the cluster-level configurations are done; on to the next cluster.
ClusterConfigurationsDone ==
    /\ pc = "cluster_configurations"
    /\ run_config > Len(metrics_cluster_configurations)
    /\ run_cluster' = run_cluster + 1
    /\ pc' = "run"
    /\ UNCHANGED <<error, normVars, fetchIn, fetchVars, statVars, aggIn, aggVars,
                   csvVars, runIn, run_config, inst_next, agg_result, agg_file,
                   plotted>>

---------------------------------------------------------------------------
(* The three components, each from its own initial states. *)

NormIdle ==
    /\ raw_point = None /\ data_point = None /\ is_extended = FALSE

FetchIdle ==
    /\ period = 0 /\ samples = {} /\ up_unit = None /\ up_order = None
    /\ path = "none" /\ current_start_time = None
    /\ datapoints = <<>> /\ extended_datapoints = <<>>
    /\ queries = <<>> /\ ret = None

AggIdle ==
    /\ service_tag = None /\ cluster = None /\ metric_name = None
    /\ instance_ids = <<>> /\ all_metrics = <<>> /\ all_extended_metrics = <<>>
    /\ agg_next = 1 /\ unit = None /\ all_aggregate_result = <<>>

CsvIdle ==
    /\ agg = None /\ title = TRUE /\ res = None

RunIdle ==
    /\ rds_clusters = <<>> /\ cluster_instances = <<>> /\ up_kind = <<>>
    /\ run_cluster = 1 /\ run_config = 1 /\ inst_next = 1
    /\ agg_result = [is_none |-> TRUE, value |-> <<>>, keys |-> <<>>]
    /\ agg_file = <<>> /\ plotted = <<>>

InitNormOnly ==
    /\ InitNorm /\ error = "none"
    /\ start_time = 0 /\ end_time = 0
    /\ statistics = <<>> /\ extended_statistics = <<>>
    /\ FetchIdle /\ AggIdle /\ CsvIdle /\ RunIdle

InitFetchOnly == InitFetch /\ error = "none" /\ NormIdle /\ AggIdle /\ CsvIdle /\ RunIdle

InitAggOnly == InitAgg /\ error = "none" /\ NormIdle /\ FetchIdle /\ CsvIdle /\ RunIdle

InitCsvOnly ==
    /\ InitCsv /\ error = "none"
    /\ start_time = 0 /\ end_time = 0
    /\ statistics = <<>> /\ extended_statistics = <<>>
    /\ NormIdle /\ FetchIdle /\ AggIdle /\ RunIdle

InitRunOnly ==
    /\ InitRun /\ error = "none"
    /\ statistics = <<>> /\ extended_statistics = <<>>
    /\ agg_next = 1 /\ unit = None /\ all_aggregate_result = <<>>
    /\ NormIdle /\ FetchIdle /\ CsvIdle

NextNorm == Reformat

NextFetch == DivideByZero \/ Unsplit \/ SplitBegin \/ SplitIterate \/ SplitFinish

NextAgg == AggregateInstance \/ AggregateRaise \/ AggregateReturn

SpecNorm == InitNormOnly /\ [][NextNorm]_vars

SpecFetch == InitFetchOnly /\ [][NextFetch]_vars

SpecAgg == InitAggOnly /\ [][NextAgg]_vars

NextCsv == OutputLine

SpecCsv == InitCsvOnly /\ [][NextCsv]_vars

NextRun ==
    \/ NoClusters \/ ClusterBegin \/ RunReturn
    \/ InstanceBegin \/ InstanceSkip \/ InstanceStore \/ InstanceNoData
    \/ InstanceAggregate \/ InstanceAggregateRaise
    \/ InstanceWrite \/ InstanceWriteRaise \/ InstanceConfigurationsDone
    \/ ClusterNoData \/ ClusterStore \/ ClusterAggregate \/ ClusterAggregateRaise
    \/ ClusterWrite \/ ClusterWriteRaise \/ ClusterConfigurationsDone

SpecRun == InitRunOnly /\ [][NextRun]_vars

Init == InitNormOnly \/ InitFetchOnly \/ InitAggOnly \/ InitCsvOnly \/ InitRunOnly

Next == NextNorm \/ NextFetch \/ NextAgg \/ NextCsv \/ NextRun

Spec == Init /\ [][Next]_vars

---------------------------------------------------------------------------
(* Properties of get_rds_metrics, checked under SpecFetch. *)

\* The windows queried for the standard statistics, in the order issued.
StdWindows == SelectSeq(queries, LAMBDA q : q.kind = "Statistics")

ExtWindows == SelectSeq(queries, LAMBDA q : q.kind = "ExtendedStatistics")

Duration(q) == q.EndTime - q.StartTime

Covering(w, t) == {i \in DOMAIN w : w[i].StartTime <= t /\ t < w[i].EndTime}

Instants(series) == [i \in DOMAIN series |-> series[i]["Timestamp"].instant]

\* C1: for end > start and period > 0, the windows queried for the standard
\* statistics begin at start, end at end, each begins where the one before
\* ended and none is empty, so every instant of [start, end) lies in exactly
\* one window.
C1_SplitCoverage ==
    (pc = "done" /\ end_time > start_time /\ period > 0) =>
        LET w == StdWindows
        IN  /\ Len(w) >= 1
            /\ w[1].StartTime = start_time
            /\ w[Len(w)].EndTime = end_time
            /\ \A i \in 1 .. Len(w) - 1 : w[i + 1].StartTime = w[i].EndTime
            /\ \A i \in DOMAIN w : w[i].StartTime < w[i].EndTime
            /\ \A t \in EdgeInstants(start_time, end_time, period) :
                  Cardinality(Covering(w, t))
                     = (IF start_time <= t /\ t < end_time THEN 1 ELSE 0)

\* A range split into three windows, the last one shorter than the others.
C1_Witness ==
    /\ pc = "done" /\ path = "split" /\ period > 0 /\ end_time > start_time
    /\ Len(StdWindows) = 3
    /\ Duration(StdWindows[3]) < Duration(StdWindows[2])

\* C2: with requested = floor((end - start) / period), a request of at most
\* max_datapoints is queried as the one window [start, end); a larger one as
\* windows of exactly period * max_datapoints, the last clipped to end; and no
\* queried window asks for more than max_datapoints datapoints.
C2_WindowsRespectCeiling ==
    (pc = "done" /\ period # 0) =>
        LET requested == FloorDiv(end_time - start_time, period)
            w         == StdWindows
        IN  /\ requested <= 1440 =>
                /\ Len(w) = 1
                /\ w[1].StartTime = start_time /\ w[1].EndTime = end_time
            /\ requested > 1440 =>
                /\ \A i \in 1 .. Len(w) - 1 : Duration(w[i]) = period * 1440
                /\ Len(w) > 0 =>
                      /\ w[Len(w)].EndTime = end_time
                      /\ Duration(w[Len(w)]) <= period * 1440
            /\ \A i \in DOMAIN queries :
                  FloorDiv(Duration(queries[i]), period) <= 1440

\* A split whose last window is clipped, after a full one.
C2_Witness ==
    /\ pc = "done" /\ path = "split"
    /\ Len(StdWindows) >= 2
    /\ Duration(StdWindows[1]) = period * 1440
    /\ Duration(StdWindows[Len(StdWindows)]) < period * 1440

\* C3: what the split branch returns is what the unsplit branch returns when
\* run on the same range: the same datapoints, converted to UTC+9 and
\* normalized alike, in ascending order of timestamp, each datapoint the
\* upstream holds in [start, end) once.
C3_SplitEquivalence ==
    (pc = "done" /\ path = "split") =>
        /\ ret = get_rds_metrics_unsplit(samples, up_unit, up_order, statistics,
                                         extended_statistics, start_time, end_time)
        /\ Instants(ret[1]) = Ascending(InWindow(samples, start_time, end_time))
        /\ extended_statistics # <<>> =>
              Instants(ret[2]) = Ascending(InWindow(samples, start_time, end_time))

\* A split fetch of byte-valued datapoints that several windows returned in
\* descending order.
C3_Witness ==
    /\ pc = "done" /\ path = "split"
    /\ up_order = "desc" /\ up_unit = "Bytes"
    /\ Len(StdWindows) >= 2
    /\ Len(ret[1]) >= 3 /\ Len(ret[2]) >= 3
    /\ ret[1][1]["Unit"] = "MB"

\* C4: (for a valid range and period) a query for the standard statistics is
\* issued only if statistics is non-empty, a query for the extended
\* statistics only if extended_statistics is non-empty.
C4_NoQueryForEmptyList ==
    (period > 0 /\ end_time > start_time) =>
        /\ statistics = <<>> => StdWindows = <<>>
        /\ extended_statistics = <<>> => ExtWindows = <<>>

\* C5: with start_time = end_time (and a valid period) no query is issued and
\* both series returned are empty.
C5_EmptyRangeNoFetch ==
    (start_time = end_time /\ period > 0) =>
        /\ queries = <<>>
        /\ pc = "done" => ret = << <<>>, <<>> >>

\* C6: with period <= 0 or end_time < start_time the call issues no query
\* and does not return a result.
C6_InvalidRejectedBeforeQuery ==
    (period <= 0 \/ end_time < start_time) =>
        /\ queries = <<>>
        /\ pc # "done"

---------------------------------------------------------------------------
(* Properties of aggregate_cluster_metrics, checked under SpecAgg. *)

\* The field of the record that each standard statistic is reduced into.
FieldOf(statistic) ==
    CASE statistic = "Average" -> "avg"
      [] statistic = "Maximum" -> "max"
      [] statistic = "Minimum" -> "min"
      [] OTHER                 -> "sum"

\* x is the arithmetic mean of the non-empty list values.
IsMean(x, values) == sum(values) = Rat(x[1] * Len(values), x[2])

IsMax(x, values) ==
    /\ x \in Range(values)
    /\ \A v \in Range(values) : ~RatLess(x, v)

IsMin(x, values) ==
    /\ x \in Range(values)
    /\ \A v \in Range(values) : ~RatLess(v, x)

\* C7: the record of every entity has a standard-statistic field exactly for
\* each requested statistic: avg is the mean, max the maximum, min the
\* minimum and sum the total of the values present for that field in the
\* entity's series, and a statistic not requested has no field.
C7_StandardFields ==
    \A id \in DOMAIN all_aggregate_result :
        LET rec == all_aggregate_result[id]
        IN  \A s \in Range(StdFields) :
               LET values == Present(all_metrics[id], s)
               IN  /\ FieldOf(s) \in DOMAIN rec <=> s \in Range(statistics)
                   /\ FieldOf(s) \in DOMAIN rec =>
                        CASE s = "Average" -> values # <<>> /\ IsMean(rec["avg"], values)
                          [] s = "Maximum" -> values # <<>> /\ IsMax(rec["max"], values)
                          [] s = "Minimum" -> values # <<>> /\ IsMin(rec["min"], values)
                          [] OTHER         -> rec["sum"] = sum(values)

\* The values 10, 20, 30 with all four statistics requested: avg = 20,
\* max = 30, min = 10, sum = 60.
C7_Witness ==
    /\ pc = "aggregated"
    /\ statistics = <<"Average", "Maximum", "Minimum", "Sum">>
    /\ "i1" \in DOMAIN all_aggregate_result
    /\ \A s \in Range(StdFields) :
          Present(all_metrics["i1"], s) = <<Whole(10), Whole(20), Whole(30)>>
    /\ all_aggregate_result["i1"]["avg"] = Whole(20)
    /\ all_aggregate_result["i1"]["max"] = Whole(30)
    /\ all_aggregate_result["i1"]["min"] = Whole(10)
    /\ all_aggregate_result["i1"]["sum"] = Whole(60)

\* C8: a record is never made for an entity while one of the requested
\* standard statistics is carried by no datapoint of its series: that
\* aggregation ends in an error instead.
C8_AbsentStatisticIsError ==
    \A id \in DOMAIN all_aggregate_result :
        \A s \in Range(statistics) \cap Range(StdFields) :
            Present(all_metrics[id], s) # <<>>

\* C9: for each requested percentile label the record holds the mean of the
\* values present for it as <label>_avg and as <label>_max; where the maximum
\* of those values differs from their mean, <label>_max is not the maximum.
C9_PercentileFolding ==
    \A id \in DOMAIN all_aggregate_result :
        \A l \in Range(extended_statistics) :
            LET rec    == all_aggregate_result[id]
                values == PresentExtended(all_extended_metrics[id], l)
            IN  /\ values # <<>>
                /\ {l \o "_avg", l \o "_max"} \subseteq DOMAIN rec
                /\ IsMean(rec[l \o "_avg"], values)
                /\ rec[l \o "_max"] = rec[l \o "_avg"]
                /\ ~IsMean(max(values), values) => rec[l \o "_max"] # max(values)

\* The p90 values 5 and 15: p90_avg = p90_max = 10.
C9_Witness ==
    /\ pc = "aggregated"
    /\ extended_statistics = <<"p90", "p99">>
    /\ "i1" \in DOMAIN all_aggregate_result
    /\ PresentExtended(all_extended_metrics["i1"], "p90") = <<Whole(5), Whole(15)>>
    /\ all_aggregate_result["i1"]["p90_avg"] = Whole(10)
    /\ all_aggregate_result["i1"]["p90_max"] = Whole(10)

---------------------------------------------------------------------------
(* Properties of reformat_bytes_metrics, checked under SpecNorm. *)

\* C10: a standard datapoint in "Bytes" comes out in "MB" with each of
\* Average, Maximum, Minimum, Sum that it carries divided by 1,048,576 and
\* with no key added or removed; a standard datapoint in another unit comes
\* out as it went in.
C10_StandardNormalization ==
    (pc = "normalized" /\ is_extended = FALSE) =>
        IF raw_point["Unit"] = "Bytes"
        THEN /\ DOMAIN data_point = DOMAIN raw_point
             /\ data_point["Unit"] = "MB"
             /\ data_point["Timestamp"] = raw_point["Timestamp"]
             /\ \A f \in Range(StdFields) \cap DOMAIN raw_point :
                   data_point[f] = Rat(raw_point[f][1], raw_point[f][2] * 1048576)
        ELSE data_point = raw_point

\* Average = 1048576 bytes becomes 1 MB, and the absent Sum stays absent.
C10_Witness ==
    /\ pc = "normalized" /\ is_extended = FALSE
    /\ raw_point["Unit"] = "Bytes"
    /\ "Average" \in DOMAIN raw_point /\ raw_point["Average"] = Whole(1048576)
    /\ "Sum" \notin DOMAIN raw_point
    /\ data_point["Unit"] = "MB"
    /\ data_point["Average"] = Whole(1)
    /\ "Sum" \notin DOMAIN data_point

\* C11: an extended datapoint in "Bytes" comes out in "MB" with every
\* percentile value of its ExtendedStatistics divided by 1,048,576, whatever
\* the label.
C11_EveryPercentileDivided ==
    (pc = "normalized" /\ is_extended = TRUE /\ raw_point["Unit"] = "Bytes") =>
        /\ data_point["Unit"] = "MB"
        /\ \A l \in DOMAIN raw_point["ExtendedStatistics"] :
              data_point["ExtendedStatistics"][l]
                 = Rat(raw_point["ExtendedStatistics"][l][1],
                       raw_point["ExtendedStatistics"][l][2] * 1048576)

---------------------------------------------------------------------------
(* The unit of the records, checked under SpecAgg. *)

\* C16 as stated: the MetricUnit of every record is the unit of the first
\* standard datapoint of that record's own entity.
C16_OwnUnit ==
    \A id \in DOMAIN all_aggregate_result :
        all_aggregate_result[id]["MetricUnit"] = all_metrics[id][1]["Unit"]

\* C16 as amended: the MetricUnit of every record is the unit of the first
\* standard datapoint of the first entity processed.
C16_FirstEntityUnit ==
    \A id \in DOMAIN all_aggregate_result :
        all_aggregate_result[id]["MetricUnit"] = all_metrics[instance_ids[1]][1]["Unit"]

\* A second entity whose series is in "MB", recorded with the first
\* entity's "Percent".
C16_Witness ==
    /\ pc = "aggregated"
    /\ instance_ids = <<"i1", "i2">>
    /\ all_metrics["i1"][1]["Unit"] = "Percent"
    /\ all_metrics["i2"][1]["Unit"] = "MB"
    /\ all_aggregate_result["i1"]["MetricUnit"] = "Percent"
    /\ all_aggregate_result["i2"]["MetricUnit"] = "Percent"

---------------------------------------------------------------------------
(* The range-splitting loop, checked under SpecFetch. *)

\* The ceiling of a / b (b # 0).
CeilDiv(a, b) == 0 - FloorDiv(0 - a, b)

\* C18: whenever the split branch is entered, the loop ends with
\* current_start_time = end_time after exactly
\* ceil((end - start) / (period * max_datapoints)) iterations, each one over a
\* window of positive duration that starts later than the one before and
\* issuing at most two queries.
C18_LoopIterations ==
    (pc = "done" /\ path = "split") =>
        LET w == StdWindows
        IN  /\ Len(w) = CeilDiv(end_time - start_time, period * 1440)
            /\ current_start_time = end_time
            /\ \A i \in DOMAIN w : Duration(w[i]) > 0
            /\ \A i \in 1 .. Len(w) - 1 : w[i + 1].StartTime > w[i].StartTime
            /\ Len(queries) <= 2 * Len(w)

---------------------------------------------------------------------------
(* Normalization at ingestion, checked under SpecFetch. *)

\* The value a raw value has after one division by 1,048,576 if the upstream
\* unit is "Bytes", and unchanged otherwise.
OnceNormalized(x) == IF up_unit = "Bytes" THEN Rat(x[1], x[2] * 1048576) ELSE x

\* C17: on either branch, every datapoint get_rds_metrics returns carries the
\* upstream values normalized once (divided by 1,048,576 once and labelled
\* "MB" if the upstream unit is "Bytes", untouched otherwise), and calling the
\* normalizer on a returned datapoint again changes nothing.
C17_NormalizedOnce ==
    pc = "done" =>
        /\ \A i \in DOMAIN ret[1] :
              LET dp == ret[1][i]
                  t  == dp["Timestamp"].instant
              IN  /\ dp["Unit"] = (IF up_unit = "Bytes" THEN "MB" ELSE up_unit)
                  /\ \A f \in Range(statistics) : dp[f] = OnceNormalized(StatValue(f, t))
                  /\ reformat_bytes_metrics(dp, FALSE) = dp
        /\ \A i \in DOMAIN ret[2] :
              LET dp == ret[2][i]
                  t  == dp["Timestamp"].instant
              IN  /\ dp["Unit"] = (IF up_unit = "Bytes" THEN "MB" ELSE up_unit)
                  /\ \A l \in Range(extended_statistics) :
                        dp["ExtendedStatistics"][l] = OnceNormalized(PercentileValue(l, t))
                  /\ reformat_bytes_metrics(dp, TRUE) = dp

\* A split fetch that returns a byte-valued datapoint of 1048576 as 1 MB, in
\* the standard and in the extended series.
C17_Witness ==
    /\ pc = "done" /\ path = "split" /\ up_unit = "Bytes"
    /\ statistics = <<"Average", "Maximum">>
    /\ extended_statistics = <<"p90", "p99">>
    /\ \E i \in DOMAIN ret[1] :
          /\ RawValue(ret[1][i]["Timestamp"].instant) = 1048576
          /\ ret[1][i]["Unit"] = "MB"
          /\ ret[1][i]["Average"] = Whole(1)
    /\ \E i \in DOMAIN ret[2] :
          /\ RawValue(ret[2][i]["Timestamp"].instant) = 1048576
          /\ ret[2][i]["ExtendedStatistics"]["p90"] = Whole(1)

---------------------------------------------------------------------------
(* Properties of output_line_agg_result, checked under SpecCsv. *)

\* The pieces of a line between its separators, in order.
Fields(line) ==
    SelectSeq(line, LAMBDA piece : piece # "," /\ piece # "\n")

\* C15: the header names the seventeen columns in the fixed order; a data line
\* has one cell per column in that order, the cell of a column whose field is
\* in the record is that field's text (0.0 for a zero), and the cell of a
\* column whose field is missing is "-", never blank and never a zero.
C15_ColumnOrderAndPlaceholder ==
    pc = "csv_done" =>
        LET f == Fields(res)
        IN  /\ Len(f) = 17
            /\ res[Len(res)] = "\n"
            /\ title =>
                 f = <<"ServiceTag", "Cluster", "Instance", "MetricName",
                       "MetricUnit", "avg", "max", "min", "sum",
                       "p99_avg", "p99_max", "p90_avg", "p90_max",
                       "p80_avg", "p80_max", "p50_avg", "p50_max">>
            /\ ~title =>
                 \A i \in 1 .. 17 :
                    /\ res[2 * i] = ","
                    /\ columns[i] \notin DOMAIN agg =>
                         /\ res[2 * i - 1] = "-"
                         /\ f[i] \notin {"", "0", "0.0"}
                    /\ columns[i] \in DOMAIN agg =>
                         res[2 * i - 1] = format(agg, columns[i])

\* A record without sum and without the p80 and p50 percentiles, whose avg is
\* zero, has been written as a data line.
C15_Witness ==
    /\ pc = "csv_done" /\ ~title
    /\ DOMAIN agg = TagColumns \cup {"avg", "max", "min", "p99_avg", "p99_max",
                                     "p90_avg", "p90_max"}
    /\ res[11] = "0.0"
    /\ res[17] = "-"
    /\ res[27] = "-"

---------------------------------------------------------------------------
(* The two functions as calls agree with the same functions taken step by
   step. *)

\* Under SpecFetch: for period # 0 the pair returned is the function's value.
FetchAgrees ==
    pc = "done" =>
        ret = get_rds_metrics(
                 Upstream(samples, samples, Range(StdFields), up_unit, up_order),
                 period, statistics, extended_statistics, start_time, end_time)

\* Under SpecAgg: the mapping returned, or the exception, is the function's.
AggregateAgrees ==
    LET o == aggregate_cluster_metrics(
                AggCall(start_time, end_time, service_tag, cluster, metric_name,
                        statistics, extended_statistics),
                instance_ids, all_metrics, all_extended_metrics)
    IN  /\ pc = "aggregated" => (o.err = "none" /\ o.rec = all_aggregate_result)
        /\ pc = "aggregate_raised" => o.err = error

---------------------------------------------------------------------------
(* Properties of generate_rds_metrics_graphics and its two pipelines, checked
   under SpecRun. *)

\* The upstream has, in [start_time, end_time), a datapoint of the entity for
\* the standard statistics and one for the percentiles.
HasBoth(entity, config) ==
    LET up == UpstreamOf(up_kind[entity], config.metric_name)
    IN  /\ InWindow(up.std, start_time, end_time) # {}
        /\ InWindow(up.ext, start_time, end_time) # {}

\* C12: while the instance-level pipeline fetches, no error is raised and the
\* two series maps have the same keys, namely the instances fetched so far for
\* which the upstream has datapoints of both series, each with a non-empty
\* series; and the mapping the pipeline returns has as keys exactly the
\* cluster's instances with datapoints of both series.
C12_EmptyEntitySkip ==
    LET config    == metrics_instance_configurations[run_config]
        instances == cluster_instances[cluster]
    IN  /\ pc = "instance_fetch" =>
              LET kept == {instances[k] : k \in
                             {k \in 1 .. (inst_next - 1) : HasBoth(instances[k], config)}}
              IN  /\ error = "none"
                  /\ DOMAIN all_metrics = kept
                  /\ DOMAIN all_extended_metrics = kept
                  /\ Range(instance_ids) = kept
                  /\ \A e \in kept :
                        Len(all_metrics[e]) > 0 /\ Len(all_extended_metrics[e]) > 0
        /\ (pc = "instance_write" /\ ~agg_result.is_none) =>
              /\ error = "none"
              /\ DOMAIN agg_result.value =
                    {e \in Range(instances) : HasBoth(e, config)}
              /\ DOMAIN agg_result.value # {}

\* The first instance has no percentile datapoints and the second has both
\* series: the pipeline has returned a mapping with the second alone.
C12_Witness ==
    /\ pc = "instance_write"
    /\ ~agg_result.is_none
    /\ up_kind["i1"] = "noext"
    /\ cluster_instances[cluster] = <<"i1", "i2">>
    /\ DOMAIN agg_result.value = {"i2"}
    /\ DOMAIN all_metrics = {"i2"}

\* The configuration and the entities of the pipeline call in progress.
CurrentConfig ==
    IF metric_name = "VolumeBytesUsed" THEN metrics_cluster_configurations[1]
    ELSE metrics_instance_configurations[run_config]

CurrentEntities ==
    IF metric_name = "VolumeBytesUsed" THEN {cluster}
    ELSE Range(cluster_instances[cluster])

\* C13: when the upstream has no data of a metric for any instance of the
\* cluster (or for the cluster, at cluster level), the run does not end with
\* an error.
C13_NoDataIsNotAnError ==
    (/\ pc = "run_raised"
     /\ CurrentEntities # {}
     /\ \A e \in CurrentEntities : ~HasBoth(e, CurrentConfig))
        => error = "none"

\* The pieces of a row of the aggregated-metrics file that name the instance
\* and the metric.
HasRow(cl, instance, name) ==
    /\ cl \in DOMAIN agg_file
    /\ \E k \in DOMAIN agg_file[cl] :
          agg_file[cl][k][5] = instance /\ agg_file[cl][k][7] = name

\* The upstream has both series of the entity and reports every statistic the
\* configuration asks for.
Healthy(entity, config) ==
    /\ HasBoth(entity, config)
    /\ Range(config.statistics) \subseteq
          UpstreamOf(up_kind[entity], config.metric_name).held

\* C14: when an aggregation fails during a run, the rows of every instance and
\* instance-level metric that are themselves free of failure are still in the
\* cluster's file when the run is over.
C14_FailureIsolated ==
    (pc = "run_raised" /\ error \in {"StatisticsError", "ValueError"}) =>
        \A c \in DOMAIN cluster_instances :
           \A e \in Range(cluster_instances[c]) :
              \A i \in DOMAIN metrics_instance_configurations :
                 Healthy(e, metrics_instance_configurations[i]) =>
                    HasRow(c, e, metrics_instance_configurations[i].metric_name)

=============================================================================
